---- MODULE Spec2Model ----
(***************************************************************************)
(* Model of bot.py: a Telegram bot that logs bets into a Google Sheet,     *)
(* settles them and summarises them.                                       *)
(*                                                                         *)
(* Text is modelled at character level: a Python str is a sequence of     *)
(* one-symbol strings, so that split, strip, replace and float() are      *)
(* computed as the code computes them.  The symbols "NBSP", "NOT" and     *)
(* "GBP" stand for U+00A0, U+00AC and U+00A3.                              *)
(*                                                                         *)
(* Numbers are fixed point: every Python float and every number cell of   *)
(* the sheet is held in thousandths (2.1 is 2100, 50 is 50000).  Binary   *)
(* floating point error is not modelled, except in "%.2f" (see Round2).   *)
(***************************************************************************)
EXTENDS Integers, Sequences, FiniteSets, TLC

----------------------------------------------------------------------------
(* Python str primitives *)

Digits == {"0", "1", "2", "3", "4", "5", "6", "7", "8", "9"}

DigitVal == [c \in Digits |->
               CASE c = "0" -> 0 [] c = "1" -> 1 [] c = "2" -> 2 [] c = "3" -> 3
                 [] c = "4" -> 4 [] c = "5" -> 5 [] c = "6" -> 6 [] c = "7" -> 7
                 [] c = "8" -> 8 [] c = "9" -> 9]

\* str.isspace() on the symbols used here: the space and U+00A0.
Whitespace == {" ", "NBSP"}

RECURSIVE LStrip(_)
LStrip(s) == IF s # <<>> /\ Head(s) \in Whitespace THEN LStrip(Tail(s)) ELSE s

RECURSIVE RStrip(_)
RStrip(s) == IF s # <<>> /\ s[Len(s)] \in Whitespace
             THEN RStrip(SubSeq(s, 1, Len(s) - 1)) ELSE s

\* str.strip()
Strip(s) == RStrip(LStrip(s))

\* str.split(d) for a one-symbol separator d: always at least one field.
RECURSIVE SplitFrom(_, _, _)
SplitFrom(s, d, cur) ==
    IF s = <<>> THEN <<cur>>
    ELSE IF Head(s) = d THEN <<cur>> \o SplitFrom(Tail(s), d, <<>>)
    ELSE SplitFrom(Tail(s), d, Append(cur, Head(s)))

Split(s, d) == SplitFrom(s, d, <<>>)

\* sep.join(parts)
RECURSIVE Join(_, _)
Join(parts, sep) ==
    IF parts = <<>> THEN <<>>
    ELSE IF Len(parts) = 1 THEN parts[1]
    ELSE parts[1] \o sep \o Join(Tail(parts), sep)

\* str.replace(a, b) for one-symbol a; b is a string (possibly empty).
RECURSIVE Replace(_, _, _)
Replace(s, a, b) ==
    IF s = <<>> THEN <<>>
    ELSE (IF Head(s) = a THEN b ELSE <<Head(s)>>) \o Replace(Tail(s), a, b)

\* str.replace(a1 a2, "") for the two-symbol string a1 a2.
RECURSIVE RemovePair(_, _, _)
RemovePair(s, a1, a2) ==
    IF Len(s) < 2 THEN s
    ELSE IF s[1] = a1 /\ s[2] = a2 THEN RemovePair(Tail(Tail(s)), a1, a2)
    ELSE <<Head(s)>> \o RemovePair(Tail(s), a1, a2)

\* re.sub(r"[^\d.\-]", "", s): keep digits, dot, minus.
KeepNumChars(s) == SelectSeq(s, LAMBDA c : c \in Digits \cup {".", "-"})

\* the list comprehension [p for p in parts if p != ""]
DropEmpty(parts) == SelectSeq(parts, LAMBDA p : p # <<>>)

\* [p.strip() for p in parts]
StripAll(parts) == [i \in 1..Len(parts) |-> Strip(parts[i])]

AllDigits(s) == \A i \in 1..Len(s) : s[i] \in Digits

RECURSIVE DigitsToInt(_)
DigitsToInt(s) == IF s = <<>> THEN 0
                  ELSE 10 * DigitsToInt(SubSeq(s, 1, Len(s) - 1)) + DigitVal[s[Len(s)]]

\* The first three fractional digits as thousandths ("1" is 100, "004" is 4).
FracToMilli(f) ==
    LET d(i) == IF i <= Len(f) THEN DigitVal[f[i]] ELSE 0
    IN  100 * d(1) + 10 * d(2) + d(3)

\* Evaluate v once and use it as x in F: a local variable assignment.
Bind(v, F(_)) == F(v)

\* A result that may be an exception: <<>> is "raised", <<v>> is the value.
Raised == <<>>
Ok(v) == <<v>>
IsOk(r) == r # <<>>
Val(r) == r[1]

(***************************************************************************)
(* float(s) on text: optional surrounding whitespace, optional sign,      *)
(* digits with at most one dot and at least one digit.  The value is in   *)
(* thousandths.  The texts of this model carry at most three fractional   *)
(* digits and none of the exponent, "inf", "nan" or underscore forms that *)
(* float() also accepts.                                                   *)
(***************************************************************************)
PyFloat(s) ==
    Bind(Strip(s), LAMBDA t :
    Bind(Split(IF t # <<>> /\ Head(t) \in {"-", "+"} THEN Tail(t) ELSE t, "."),
         LAMBDA ps :
    Bind(IF Len(ps) = 2 THEN ps[2] ELSE <<>>, LAMBDA fp :
      IF /\ Len(ps) <= 2
         /\ AllDigits(ps[1]) /\ AllDigits(fp)
         /\ Len(ps[1]) + Len(fp) > 0
      THEN Bind(1000 * DigitsToInt(ps[1]) + FracToMilli(fp), LAMBDA mag :
             Ok(IF Head(t) = "-" THEN 0 - mag ELSE mag))
      ELSE Raised)))

----------------------------------------------------------------------------
(* Value parsers *)

\* parse_money(x) for a str x: Ok(thousandths), or Raised when the second
\* float() of the except branch raises ValueError itself.
parse_money(x) ==
    Bind(Strip(Replace(x, "NBSP", <<" ">>)), LAMBDA s0 :
      IF s0 = <<>> THEN Ok(0)
      ELSE
    Bind(RemovePair(Replace(s0, ",", <<>>), "NOT", "GBP"), LAMBDA s1 :
    Bind(Split(s1, "."), LAMBDA parts :
    Bind(IF Len(parts) > 2
         THEN Join(SubSeq(parts, 1, Len(parts) - 1), <<>>)
                \o <<".">> \o parts[Len(parts)]
         ELSE s1, LAMBDA s2 :
    Bind(PyFloat(s2), LAMBDA f :
      IF IsOk(f) THEN f
      ELSE Bind(KeepNumChars(s2), LAMBDA s3 :
             IF s3 = <<>> THEN Ok(0) ELSE PyFloat(s3)))))))

\* The fractional branch of parse_odds_to_decimal: 1 + a/b for "a/b".
\* The quotient is cut to thousandths.
FractionalOdds(raw) ==
    Bind(CHOOSE k \in 1..Len(raw) :
            raw[k] = "/" /\ \A j \in 1..(k - 1) : raw[j] # "/", LAMBDA i :
    Bind(PyFloat(SubSeq(raw, 1, i - 1)), LAMBDA a :
    Bind(PyFloat(SubSeq(raw, i + 1, Len(raw))), LAMBDA b :
      IF ~IsOk(a) \/ ~IsOk(b) THEN Raised
      ELSE IF Val(b) = 0 THEN Raised
      ELSE IF 1000 + (Val(a) * 1000) \div Val(b) <= 1000 THEN Raised
      ELSE Ok(1000 + (Val(a) * 1000) \div Val(b)))))

\* parse_odds_to_decimal(s): Ok(thousandths, > 1.0) or Raised (ValueError).
parse_odds_to_decimal(s) ==
    Bind(Strip(s), LAMBDA raw :
      IF \E k \in 1..Len(raw) : raw[k] = "/" THEN FractionalOdds(raw)
      ELSE Bind(PyFloat(Replace(raw, ",", <<".">>)), LAMBDA r :
             IF ~IsOk(r) THEN Raised
             ELSE IF Val(r) <= 1000 THEN Raised
             ELSE r))

----------------------------------------------------------------------------
(* Number formatting *)

DigitChar == [d \in 0..9 |->
                CASE d = 0 -> "0" [] d = 1 -> "1" [] d = 2 -> "2" [] d = 3 -> "3"
                  [] d = 4 -> "4" [] d = 5 -> "5" [] d = 6 -> "6" [] d = 7 -> "7"
                  [] d = 8 -> "8" [] d = 9 -> "9"]

RECURSIVE NatToText(_)
NatToText(n) == IF n < 10 THEN <<DigitChar[n]>>
                ELSE Append(NatToText(n \div 10), DigitChar[n % 10])

\* The hundredths to which "%.2f" can round x thousandths.  "%.2f" rounds
\* the exact binary value of the float: a decimal tie x.xx5 is a tie of the
\* float only when it is a multiple of 1/8 (then half-even applies);
\* otherwise the float lies just above or just below it, and both
\* roundings are kept as possible outcomes.
Round2(x) ==
    LET h == x \div 10
    IN  IF x % 10 < 5 THEN {h}
        ELSE IF x % 10 > 5 THEN {h + 1}
        ELSE IF x % 125 = 0 THEN {IF h % 2 = 0 THEN h ELSE h + 1}
        ELSE {h, h + 1}

\* The text "%.2f" gives for h hundredths (h >= 0): "2.10".
HundredthsText(h) ==
    NatToText(h \div 100) \o <<".">>
        \o <<DigitChar[(h \div 10) % 10], DigitChar[h % 10]>>

\* f"{odds_dec:.2f}": the possible texts.
fmt_2f(x) == {HundredthsText(h) : h \in Round2(x)}

----------------------------------------------------------------------------
(* The worksheet *)

\* A cell: empty, a number (thousandths) or a text.
EmptyCell == [t |-> "empty", v |-> 0, s |-> <<>>]
Num(n)    == [t |-> "num", v |-> n, s |-> <<>>]
Text(x)   == [t |-> "text", v |-> 0, s |-> x]

\* value_input_option="USER_ENTERED": the sheet parses what is written as a
\* user typing it would be: a numeric text becomes a number.
UserEntered(x) ==
    IF x = <<>> THEN EmptyCell
    ELSE Bind(PyFloat(x), LAMBDA f : IF IsOk(f) THEN Num(Val(f)) ELSE Text(x))

\* The displayed text of a cell, as row_values, col_values and find read
\* it: a number shows without trailing zeros ("2.1", "50", "-50").
CellText(c) ==
    LET m    == IF c.v < 0 THEN 0 - c.v ELSE c.v
        f    == m % 1000
        frac == IF f = 0 THEN <<>>
                ELSE IF f % 100 = 0 THEN <<".", DigitChar[f \div 100]>>
                ELSE IF f % 10 = 0
                     THEN <<".", DigitChar[f \div 100], DigitChar[(f \div 10) % 10]>>
                ELSE <<".", DigitChar[f \div 100], DigitChar[(f \div 10) % 10],
                       DigitChar[f % 10]>>
    IN  IF c.t = "empty" THEN <<>>
        ELSE IF c.t = "text" THEN c.s
        ELSE (IF c.v < 0 THEN <<"-">> ELSE <<>>) \o NatToText(m \div 1000) \o frac

\* Columns A..L in order.
Cols == <<"id", "datePlaced", "eventDate", "tipster", "selection", "odds",
          "bookmaker", "stake", "status", "ret", "profit", "cum">>

T_ID      == <<"I", "D">>
T_Pending == <<"P", "e", "n", "d", "i", "n", "g">>
T_Win     == <<"W", "i", "n">>
T_Loss    == <<"L", "o", "s", "s">>
T_Void    == <<"V", "o", "i", "d">>

\* Row 1 of the sheet: the header row that get_all_records reads the keys
\* from ("Date Placed", "Tipster", "Stake", "Status", "Return", "Profit"),
\* with column A named as the code's column comments name it.
HeaderRow ==
    [id        |-> Text(T_ID),
     datePlaced |-> Text(<<"D", "a", "t", "e", " ", "P", "l", "a", "c", "e", "d">>),
     eventDate |-> Text(<<"E", "v", "e", "n", "t", " ", "D", "a", "t", "e">>),
     tipster   |-> Text(<<"T", "i", "p", "s", "t", "e", "r">>),
     selection |-> Text(<<"S", "e", "l", "e", "c", "t", "i", "o", "n">>),
     odds      |-> Text(<<"O", "d", "d", "s">>),
     bookmaker |-> Text(<<"B", "o", "o", "k", "m", "a", "k", "e", "r">>),
     stake     |-> Text(<<"S", "t", "a", "k", "e">>),
     status    |-> Text(<<"S", "t", "a", "t", "u", "s">>),
     ret       |-> Text(<<"R", "e", "t", "u", "r", "n">>),
     profit    |-> Text(<<"P", "r", "o", "f", "i", "t">>),
     cum       |-> Text(<<"C", "u", "m">>)]

\* The row append_bet_row builds and append_row writes, for a generated
\* bet_id, the clock reading now and the text oddsText = f"{odds_dec:.2f}".
\* The stake is a float and stays a number; the date placed is held as the
\* text written.
NewRow(bet_id, now, tipster, selection, oddsText, bookmaker, stake) ==
    [id        |-> UserEntered(bet_id),
     datePlaced |-> UserEntered(now),
     eventDate |-> UserEntered(<<>>),
     tipster   |-> UserEntered(tipster),
     selection |-> UserEntered(selection),
     odds      |-> UserEntered(oddsText),
     bookmaker |-> UserEntered(bookmaker),
     stake     |-> Num(stake),
     status    |-> UserEntered(T_Pending),
     ret       |-> UserEntered(<<>>),
     profit    |-> UserEntered(<<>>),
     cum       |-> UserEntered(<<>>)]

\* ws.find(q): the first cell, rows then columns, whose text is q;
\* <<>> when there is none, else <<row, col>>.
ws_find(sh, q) ==
    Bind({rc \in (1..Len(sh)) \X (1..Len(Cols)) :
            CellText(sh[rc[1]][Cols[rc[2]]]) = q}, LAMBDA hits :
      IF hits = {} THEN <<>>
      ELSE CHOOSE rc \in hits :
             \A o \in hits : rc[1] < o[1] \/ (rc[1] = o[1] /\ rc[2] <= o[2]))

\* sheet_find_bet_row(bet_id): Ok(row index) or Raised (RuntimeError).
sheet_find_bet_row(sh, bet_id) ==
    Bind(ws_find(sh, bet_id), LAMBDA cell :
      IF cell = <<>> \/ cell[2] # 1
      THEN Bind({r \in 1..Len(sh) : CellText(sh[r].id) = bet_id}, LAMBDA colA :
             IF colA = {} THEN Raised
             ELSE Ok(CHOOSE r \in colA : \A o \in colA : r <= o))
      ELSE Ok(cell[1]))

----------------------------------------------------------------------------
(* Settlement *)

LowerLetters == <<"a", "b", "c", "d", "e", "f", "g", "h", "i", "j", "k", "l", "m",
                  "n", "o", "p", "q", "r", "s", "t", "u", "v", "w", "x", "y", "z">>
UpperLetters == <<"A", "B", "C", "D", "E", "F", "G", "H", "I", "J", "K", "L", "M",
                  "N", "O", "P", "Q", "R", "S", "T", "U", "V", "W", "X", "Y", "Z">>

\* The upper-case and the lower-case form of each letter.
UpperOf == [c \in {LowerLetters[i] : i \in 1..26} |->
              UpperLetters[CHOOSE i \in 1..26 : LowerLetters[i] = c]]
LowerOf == [c \in {UpperLetters[i] : i \in 1..26} |->
              LowerLetters[CHOOSE i \in 1..26 : UpperLetters[i] = c]]

ToUpper(c) == IF c \in DOMAIN UpperOf THEN UpperOf[c] ELSE c
ToLower(c) == IF c \in DOMAIN LowerOf THEN LowerOf[c] ELSE c

\* str.upper()
Upper(s) == [i \in 1..Len(s) |-> ToUpper(s[i])]

\* str.capitalize(): first symbol upper case, the rest lower case.
Capitalize(s) == [i \in 1..Len(s) |-> IF i = 1 THEN ToUpper(s[i]) ELSE ToLower(s[i])]

\* float * float on thousandths; exact for the values of this model (odds
\* with at most three decimals, whole-number stakes).
Mul(a, b) == (a * b) \div 1000

\* The if/elif/else of settle_bet: <<ret, prof>> for a status in
\* {Win, Void, Loss}, odds and stake in thousandths.
Settlement(status, odds_dec, stake) ==
    IF status = T_Win THEN <<Mul(odds_dec, stake), Mul(odds_dec, stake) - stake>>
    ELSE IF status = T_Void THEN <<stake, 0>>
    ELSE <<0, 0 - stake>>

\* A seeded fault for C2: an update that writes the status cell alone.
ws_update_status_only(rowrec, status, ret, prof) ==
    [rowrec EXCEPT !.status = UserEntered(status)]

\* ws.update("I{row}:K{row}", [[status, ret, prof]], USER_ENTERED) on a row.
ws_update_IK(rowrec, status, ret, prof) ==
    [rowrec EXCEPT !.status = UserEntered(status),
                   !.ret = Num(ret),
                   !.profit = Num(prof)]

\* The odds settle_bet computes with: m, what parse_money gave for the text
\* of cell F, or the fractional fallback when m is at most 1.0.
SettleOdds(m, cellText) ==
    IF m <= 1000
    THEN Bind(parse_odds_to_decimal(cellText), LAMBDA o :
           IF IsOk(o) THEN Val(o) ELSE m)
    ELSE m

\* The test settle_bet makes of its status argument.
ValidStatus(status0) == Capitalize(status0) \in {T_Win, T_Void, T_Loss}

\* settle_bet raising exc: nothing is written.
SettleFailed(exc, sh, status) ==
    [exc |-> exc, sheet |-> sh,
     res |-> [row |-> 0, status |-> status, ret |-> 0, profit |-> 0,
              stake |-> 0, odds |-> 0]]

\* settle_bet(bet_id, status) on sheet sh.  storeFails: a call to the
\* spreadsheet service raises (the first one made, ws_open).  The result
\* names the exception raised ("none" when it returned) and gives the sheet
\* afterwards and the returned dict.
settle_bet(sh, bet_id, status0, storeFails) ==
    Bind(Capitalize(status0), LAMBDA status :
      IF ~ValidStatus(status0)
      THEN SettleFailed("ValueError", sh, status)
      ELSE IF storeFails THEN SettleFailed("StoreError", sh, status)
      ELSE
    Bind(sheet_find_bet_row(sh, bet_id), LAMBDA found :
      IF ~IsOk(found) THEN SettleFailed("RuntimeError", sh, status)
      ELSE
    Bind(CellText(sh[Val(found)].odds), LAMBDA oddsT :
    Bind(parse_money(oddsT), LAMBDA mo :
    Bind(parse_money(CellText(sh[Val(found)].stake)), LAMBDA ms :
      IF ~IsOk(mo) \/ ~IsOk(ms) THEN SettleFailed("ValueError", sh, status)
      ELSE
    Bind(SettleOdds(Val(mo), oddsT), LAMBDA odds :
    Bind(Settlement(status, odds, Val(ms)), LAMBDA rp :
      [exc |-> "none",
       sheet |-> [sh EXCEPT ![Val(found)] =
                     ws_update_IK(sh[Val(found)], status, rp[1], rp[2])],
       res |-> [row |-> Val(found), status |-> status, ret |-> rp[1],
                profit |-> rp[2], stake |-> Val(ms), odds |-> odds]])))))))

----------------------------------------------------------------------------
(* Bet logging *)

\* process_bet_line raising ValueError(msg).
Rejected(msg) ==
    [exc |-> msg, tipster |-> <<>>, selection |-> <<>>, odds_dec |-> 0,
     bookmaker |-> <<>>, stake |-> 0]

\* datetime.strptime(s, "%Y-%m-%d") succeeding on a text of the shape
\* dddd-dd-dd, one of the formats parse_datetime_london tries in turn
\* (days 1..28, which every month has).
strptime_Ymd(s) ==
    /\ Len(s) = 10
    /\ s[5] = "-" /\ s[8] = "-"
    /\ AllDigits(SubSeq(s, 1, 4)) /\ AllDigits(SubSeq(s, 6, 7))
    /\ AllDigits(SubSeq(s, 9, 10))
    /\ DigitsToInt(SubSeq(s, 1, 4)) >= 1
    /\ DigitsToInt(SubSeq(s, 6, 7)) \in 1..12
    /\ DigitsToInt(SubSeq(s, 9, 10)) \in 1..28

\* A seeded fault for C6: a resolver that falls back to the layout
\* Selection / Odds / Bookmaker / Stake / Date when the first layout fails.
process_bet_line_AB(line) ==
    Bind(DropEmpty(StripAll(Split(line, "/"))), LAMBDA parts :
      IF Len(parts) # 5 THEN Rejected("Please send")
      ELSE IF /\ IsOk(parse_odds_to_decimal(parts[3]))
              /\ IsOk(parse_money(parts[5]))
              /\ Val(parse_money(parts[5])) > 0
      THEN [exc |-> "none", tipster |-> parts[1], selection |-> parts[2],
            odds_dec |-> Val(parse_odds_to_decimal(parts[3])),
            bookmaker |-> parts[4], stake |-> Val(parse_money(parts[5]))]
      ELSE IF /\ IsOk(parse_odds_to_decimal(parts[2]))
              /\ IsOk(parse_money(parts[4]))
              /\ Val(parse_money(parts[4])) > 0
              /\ strptime_Ymd(parts[5])
      THEN [exc |-> "none", tipster |-> <<>>, selection |-> parts[1],
            odds_dec |-> Val(parse_odds_to_decimal(parts[2])),
            bookmaker |-> parts[3], stake |-> Val(parse_money(parts[4]))]
      ELSE Rejected("Please send"))

\* A seeded fault for C7: a resolver that counts the empty fields too.
process_bet_line_keeps_empty(line) ==
    Bind(StripAll(Split(line, "/")), LAMBDA parts :
      IF Len(parts) # 5 THEN Rejected("Please send")
      ELSE
    Bind(parse_odds_to_decimal(parts[3]), LAMBDA odds :
      IF ~IsOk(odds) THEN Rejected("Bad odds")
      ELSE
    Bind(parse_money(parts[5]), LAMBDA stake :
      IF ~IsOk(stake) THEN Rejected("could not convert")
      ELSE IF Val(stake) <= 0 THEN Rejected("Stake must be greater than 0")
      ELSE [exc |-> "none", tipster |-> parts[1], selection |-> parts[2],
            odds_dec |-> Val(odds), bookmaker |-> parts[4],
            stake |-> Val(stake)])))

\* The parsing part of process_bet_line(line), before append_bet_row: the
\* message of the ValueError raised, or "none" and the parsed fields.
process_bet_line(line) ==
    Bind(DropEmpty(StripAll(Split(line, "/"))), LAMBDA parts :
      IF Len(parts) # 5 THEN Rejected("Please send")
      ELSE
    Bind(parse_odds_to_decimal(parts[3]), LAMBDA odds :
      IF ~IsOk(odds) THEN Rejected("Bad odds")
      ELSE
    Bind(parse_money(parts[5]), LAMBDA stake :
      IF ~IsOk(stake) THEN Rejected("could not convert")
      ELSE IF Val(stake) <= 0 THEN Rejected("Stake must be greater than 0")
      ELSE [exc |-> "none", tipster |-> parts[1], selection |-> parts[2],
            odds_dec |-> Val(odds), bookmaker |-> parts[4],
            stake |-> Val(stake)])))

----------------------------------------------------------------------------
(* Inputs *)

MaxRows == 2    \* bet rows the sheet may hold (below the header row)

Sep == <<" ", "/", " ">>

F_Lew  == <<"L", "e", "w">>
F_LFC  == <<"L", "F", "C">>
F_B365 == <<"B", "3", "6", "5">>
F_Date == <<"2", "0", "2", "5", "-", "0", "9", "-", "2", "3">>

\* "Lew / LFC / 2.1 / B365 / 50": Tipster / Selection / Odds / Bookmaker / Stake
L_A == Join(<<F_Lew, F_LFC, <<"2", ".", "1">>, F_B365, <<"5", "0">>>>, Sep)
\* the same bet with a decimal comma and a currency sign: "2,1" and "GBP 50"
L_A2 == Join(<<F_Lew, F_LFC, <<"2", ",", "1">>, F_B365, <<"GBP", "5", "0">>>>, Sep)
\* "LFC / 2.1 / B365 / 50 / 2025-09-23": Selection / Odds / Bookmaker / Stake / Date
L_B == Join(<<F_LFC, <<"2", ".", "1">>, F_B365, <<"5", "0">>, F_Date>>, Sep)
\* odds 1.004: above 1.0, and "1.00" to two decimals
L_Round == Join(<<F_Lew, F_LFC, <<"1", ".", "0", "0", "4">>, F_B365, <<"5", "0">>>>, Sep)
\* odds exactly 1.0
L_Odds1 == Join(<<F_Lew, F_LFC, <<"1", ".", "0">>, F_B365, <<"5", "0">>>>, Sep)
\* stake 0
L_Stake0 == Join(<<F_Lew, F_LFC, <<"2", ".", "1">>, F_B365, <<"0">>>>, Sep)
\* three fields
L_3 == Join(<<F_Lew, F_LFC, <<"2", ".", "1">>>>, Sep)
\* three fields, two of them blank: "Lew /  /  "
L_3e == Join(<<F_Lew, <<>>, <<" ">>>>, Sep)
\* four fields
L_4 == Join(<<F_LFC, <<"2", ".", "1">>, F_B365, <<"5", "0">>>>, Sep)
\* six fields: fractional odds 11/10 split by the separator
L_Frac == Join(<<F_Lew, F_LFC, <<"1", "1", "/", "1", "0">>, F_B365, <<"5", "0">>>>, Sep)
\* seven fields, none empty: a trailing day/month date
L_7 == Join(<<F_Lew, F_LFC, <<"2", ".", "1">>, F_B365, <<"5", "0">>,
              <<"2", "3">>, <<"0", "9">>>>, Sep)
\* seven fields, the last two blank: "Lew / LFC / 2.1 / B365 / 50 /  / "
L_7e == Join(<<F_Lew, F_LFC, <<"2", ".", "1">>, F_B365, <<"5", "0">>, <<>>, <<>>>>, Sep)

\* Texts a private chat sends without a command.
BetLines == {L_A, L_A2, L_B, L_Round, L_Odds1, L_Stake0, L_3e, L_Frac, L_7, L_7e}


\* secrets.token_hex(4).upper(): eight upper-case hex digits drawn at
\* random; nothing compares the draw with the ids already in the sheet.
\* Two of the 16^8 values stand for all.
Id1 == <<"0", "A", "1", "B", "2", "C", "3", "D">>
Id2 == <<"9", "F", "8", "E", "7", "D", "6", "C">>
gen_id == {Id1, Id2}

\* now_london_with_seconds().strftime("%Y-%m-%d %H:%M:%S"): clock readings.
ClockReadings == {<<"2", "0", "2", "5", "-", "0", "9", "-", "2", "3", " ",
                    "1", "0", ":", "0", "0", ":", "0", "0">>}

\* Message texts of the /win, /loss and /void commands.
C_Win  == <<"/", "w", "i", "n">>
C_Loss == <<"/", "l", "o", "s", "s">>
C_Void == <<"/", "v", "o", "i", "d">>
Id1Lower == <<"0", "a", "1", "b", "2", "c", "3", "d">>
IdUnknown == <<"F", "F", "F", "F", "F", "F", "F", "F">>

SettleTexts ==
    {c \o <<" ">> \o Id2 : c \in {C_Win, C_Void}}
      \cup {C_Loss \o <<" ">> \o Id1Lower,
            C_Void \o <<" ">> \o IdUnknown,
            C_Win \o <<" ">> \o <<"i", "d">>,
            C_Win}

\* callback_data of inline buttons: "settle|<id>|<status>".
P_Settle == <<"s", "e", "t", "t", "l", "e">>
Bar == <<"|">>

CallbackData ==
    {Join(<<P_Settle, Id1, T_Win>>, Bar),
     Join(<<P_Settle, Id1, T_Loss>>, Bar),
     Join(<<P_Settle, Id1, T_Void>>, Bar),
     Join(<<P_Settle, Id2, <<"W", "I", "N">>>>, Bar),
     Join(<<P_Settle, Id1, <<"W", "o", "n">>>>, Bar),
     Join(<<P_Settle, IdUnknown, T_Win>>, Bar),
     Join(<<P_Settle, Id1>>, Bar)}

----------------------------------------------------------------------------
(* Summary aggregation *)

MaxDf == 2     \* rows of the data frame

\* Dates placed, and the windows [start, end) asked for, as day numbers.
Days == {1, 2}
Windows == {<<1, 2>>, <<1, 3>>, <<2, 3>>}

\* The Tipster column's values, in the order groupby sorts its keys: "" first.
TipsterOrder == <<<<>>, F_Lew>>

\* Status, Stake, Return and Profit of a row as load_bets_df gives them
\* (amounts in thousandths): settled rows as settle_bet writes them, a Void
\* row whose stored return and profit are not those of a void bet, a Pending
\* row and a row with an empty status.
BetKinds ==
    {[status |-> T_Win, stake |-> 50000, ret |-> 100000, profit |-> 50000],
     [status |-> T_Loss, stake |-> 20000, ret |-> 0, profit |-> 0 - 20000],
     [status |-> T_Void, stake |-> 20000, ret |-> 20000, profit |-> 0],
     [status |-> T_Void, stake |-> 20000, ret |-> 7000, profit |-> 3000],
     [status |-> T_Pending, stake |-> 10000, ret |-> 0, profit |-> 0],
     [status |-> <<>>, stake |-> 10000, ret |-> 5000, profit |-> 5000]}

DfRows ==
    {[date |-> d, tipster |-> TipsterOrder[t], status |-> k.status,
      stake |-> k.stake, ret |-> k.ret, profit |-> k.profit] :
        d \in Days, t \in 1..Len(TipsterOrder), k \in BetKinds}

Dfs == UNION {[1..n -> DfRows] : n \in 0..MaxDf}

\* sum() of F over the rows of a frame.
RECURSIVE SumNums(_)
SumNums(ns) == IF ns = <<>> THEN 0 ELSE Head(ns) + SumNums(Tail(ns))

SumSeq(g, F(_)) == SumNums([i \in 1..Len(g) |-> F(g[i])])

\* wins / bets as a float, in thousandths.
Ratio(a, b) == (a * 1000) \div b

\* A variant of the lambda below that reads the stored return of every row.
StoredReturn(r) == r.ret

\* lambda r: r["Return"] if Win else (r["Stake"] if Void else 0.0)
ReturnedOf(r) ==
    IF r.status = T_Win THEN r.ret ELSE IF r.status = T_Void THEN r.stake ELSE 0

\* lambda r: 0.0 if Void else r["Profit"]
ProfitOf(r) == IF r.status = T_Void THEN 0 ELSE r.profit

StakeOf(r) == r.stake

IsWin(r) == IF r.status = T_Win THEN 1 ELSE 0

\* tip or the dash
TipsterName(tip) == IF tip = <<>> THEN <<"EMDASH">> ELSE tip

\* The record build_summary makes of group g of tipster tip.
GroupRecord(tip, g, pending) ==
    [tipster |-> TipsterName(tip),
     bets |-> Len(g),
     wins |-> SumSeq(g, IsWin),
     staked |-> SumSeq(g, StakeOf),
     returned |-> SumSeq(g, ReturnedOf),
     profit |-> SumSeq(g, ProfitOf),
     winPct |-> IF Len(g) > 0 THEN Ratio(SumSeq(g, IsWin), Len(g)) ELSE 0,
     pending |-> Len(SelectSeq(pending, LAMBDA r : r.tipster = tip))]

\* for tip, g in settled.groupby("Tipster"): the records of the groups of
\* the keys from position k on, in key order.
RECURSIVE GroupRecords(_, _, _)
GroupRecords(settled, pending, k) ==
    IF k > Len(TipsterOrder) THEN <<>>
    ELSE Bind(SelectSeq(settled, LAMBDA r : r.tipster = TipsterOrder[k]), LAMBDA g :
           (IF g = <<>> THEN <<>> ELSE <<GroupRecord(TipsterOrder[k], g, pending)>>)
             \o GroupRecords(settled, pending, k + 1))

\* records.sort(key=profit, reverse=True): a stable sort, greatest first.
RECURSIVE InsertByProfit(_, _)
InsertByProfit(sorted, r) ==
    IF sorted = <<>> THEN <<r>>
    ELSE IF Head(sorted).profit >= r.profit
         THEN <<Head(sorted)>> \o InsertByProfit(Tail(sorted), r)
    ELSE <<r>> \o sorted

RECURSIVE SortByProfit(_)
SortByProfit(records) ==
    IF records = <<>> THEN <<>>
    ELSE InsertByProfit(SortByProfit(SubSeq(records, 1, Len(records) - 1)),
                        records[Len(records)])

BetsOf(r) == r.bets
WinsOf(r) == r.wins
StakedOf(r) == r.staked
ReturnedSum(r) == r.returned
ProfitSum(r) == r.profit

\* The overall dict.
Overall(records, pending) ==
    [bets |-> SumSeq(records, BetsOf),
     wins |-> SumSeq(records, WinsOf),
     staked |-> SumSeq(records, StakedOf),
     returned |-> SumSeq(records, ReturnedSum),
     profit |-> SumSeq(records, ProfitSum),
     winPct |-> IF records = <<>> THEN 0
                ELSE Ratio(SumSeq(records, WinsOf),
                           IF SumSeq(records, BetsOf) > 1
                           THEN SumSeq(records, BetsOf) ELSE 1),
     pending |-> Len(pending)]

\* build_summary(df, start_lon, end_lon): <<overall, records>>.
build_summary(frame, start_lon, end_lon) ==
    Bind(SelectSeq(frame, LAMBDA r : r.date >= start_lon /\ r.date < end_lon), LAMBDA dfx :
    Bind(SelectSeq(dfx, LAMBDA r : r.status \in {T_Win, T_Void, T_Loss}), LAMBDA settled :
    Bind(SelectSeq(dfx, LAMBDA r : r.status = T_Pending), LAMBDA pending :
    Bind(SortByProfit(GroupRecords(settled, pending, 1)), LAMBDA records :
      <<Overall(records, pending), records>>))))

NoSummary ==
    [done |-> FALSE, start |-> 0, end |-> 0, overall |-> Overall(<<>>, <<>>),
     records |-> <<>>]

----------------------------------------------------------------------------
(* State *)

VARIABLES
    sheet,     \* the worksheet: a sequence of rows, row 1 the header row
    entered,   \* what process_bet_line returned for each appended row, in order
    lastOp,    \* the last handler run, its input and what it did, in order
    df,        \* the data frame load_bets_df returned to cmd_summary
    summary    \* what build_summary last returned, and for which window

vars == <<sheet, entered, lastOp, df, summary>>

\* s.split(d, n): at most n splits.
RECURSIVE SplitMax(_, _, _)
SplitMax(s, d, n) ==
    IF n = 0 \/ ~(\E k \in 1..Len(s) : s[k] = d) THEN <<s>>
    ELSE LET i == CHOOSE k \in 1..Len(s) : s[k] = d /\ \A j \in 1..(k - 1) : s[j] # d
         IN  <<SubSeq(s, 1, i - 1)>> \o SplitMax(SubSeq(s, i + 1, Len(s)), d, n - 1)

\* s.split(): split on runs of whitespace, no empty fields.
SplitWS(s) == DropEmpty(Split(Replace(s, "NBSP", <<" ">>), " "))

\* c in s
Contains(s, c) == c \in {s[k] : k \in 1..Len(s)}

StartsWith(s, p) == Len(s) >= Len(p) /\ SubSeq(s, 1, Len(p)) = p

C_Log == <<"/", "l", "o", "g">>

\* Texts of /log messages: the bare command, and the command with a line.
LogTexts == {C_Log} \cup {C_Log \o <<" ">> \o l : l \in {L_A, L_Round, L_3, L_4}}

\* cmd_log's first statement: the text after the first space, stripped,
\* or "" when there is none.
LogLineOf == [text \in LogTexts |->
                Bind(SplitMax(text, " ", 1), LAMBDA sp :
                  IF Len(sp) > 1 THEN Strip(sp[2]) ELSE <<>>)]

\* Every line process_bet_line is called with.
LogLines == (BetLines \cup {LogLineOf[text] : text \in LogTexts}) \ {<<>>}

ParsedLog == [l \in LogLines |-> process_bet_line(l)]

\* append_bet_row on what process_bet_line parsed from each line: the rows
\* it may append, one for each id drawn, clock reading and rounding.
append_bet_row ==
    [l \in LogLines |->
       IF ParsedLog[l].exc # "none" THEN {}
       ELSE {NewRow(bet_id, now, ParsedLog[l].tipster, ParsedLog[l].selection,
                    oddsText, ParsedLog[l].bookmaker, ParsedLog[l].stake) :
               bet_id \in gen_id, now \in ClockReadings,
               oddsText \in fmt_2f(ParsedLog[l].odds_dec)}]

Init ==
    /\ sheet = <<HeaderRow>>
    /\ entered = <<>>
    /\ lastOp = [handler |-> "none", input |-> <<>>, events |-> <<>>]
    /\ df = <<>>
    /\ summary = NoSummary

\* Whether a call to the spreadsheet service raises: a choice of the
\* environment in the runs that reach the service, and no choice elsewhere.
StoreFaults(reachesStore) == IF reachesStore THEN BOOLEAN ELSE {FALSE}

\* What cmd_log and log_bet_free_text_dm do, in order, given the exception
\* process_bet_line raised ("none": it returned).
log_events(exc) ==
    <<"chat_action">> \o
      (IF exc = "none" THEN <<"append_row", "reply:Logged">>
       ELSE <<"raise:" \o exc, "reply:error">>)

\* The try block shared by cmd_log and log_bet_free_text_dm:
\* process_bet_line(line), i.e. parsing, then append_bet_row.
LogTry(handler, line, storeFails) ==
    LET p == ParsedLog[line]
    IN  \/ /\ p.exc # "none"
           /\ lastOp' = [handler |-> handler, input |-> line, events |-> log_events(p.exc)]
           /\ UNCHANGED <<sheet, entered>>
        \/ /\ p.exc = "none" /\ storeFails
           /\ lastOp' = [handler |-> handler, input |-> line, events |-> log_events("StoreError")]
           /\ UNCHANGED <<sheet, entered>>
        \/ /\ p.exc = "none" /\ ~storeFails
           /\ Len(sheet) <= MaxRows
           /\ lastOp' = [handler |-> handler, input |-> line, events |-> log_events("none")]
           /\ entered' = Append(entered, p)
           /\ \E row \in append_bet_row[line] : sheet' = Append(sheet, row)

\* cmd_log on the message text.
CmdLog(text, storeFails) ==
    LET line == LogLineOf[text]
    IN  IF line = <<>>
        THEN /\ lastOp' = [handler |-> "cmd_log", input |-> text, events |-> <<"reply:usage">>]
             /\ UNCHANGED <<sheet, entered>>
        ELSE LogTry("cmd_log", line, storeFails)

\* @bot.message_handler(commands=["log"])
cmd_log ==
    \E text \in LogTexts :
     \E storeFails \in StoreFaults(LogLineOf[text] # <<>>
                                     /\ ParsedLog[LogLineOf[text]].exc = "none") :
       CmdLog(text, storeFails) /\ UNCHANGED <<df, summary>>

\* log_bet_free_text_dm on the message text: it handles a private chat's
\* text that contains "/" and does not start with "/".
LogBetFreeTextDm(text, chatType, storeFails) ==
    /\ chatType = "private"
    /\ text # <<>>
    /\ Contains(text, "/")
    /\ ~StartsWith(text, <<"/">>)
    /\ LogTry("log_bet_free_text_dm", text, storeFails)

log_bet_free_text_dm ==
    \E text \in BetLines, chatType \in {"private", "group"} :
     \E storeFails \in StoreFaults(ParsedLog[text].exc = "none") :
       LogBetFreeTextDm(text, chatType, storeFails) /\ UNCHANGED <<df, summary>>

\* call.data.split("|", 2) of every callback payload.
CallbackParts == [data \in CallbackData |-> SplitMax(data, "|", 2)]

\* A seeded fault for C10: a handler that answers "saved" before it calls
\* settle_bet, whatever settle_bet then does.
cb_settle_events_early(exc) ==
    IF exc = "none" THEN <<"answer:saved", "update", "edit:settled as">>
    ELSE <<"answer:saved", "raise:" \o exc, "answer:Error", "send:error">>

\* What cb_settle does, in order, given the exception its try block raised.
cb_settle_events(exc) ==
    IF exc = "none" THEN <<"update", "answer:saved", "edit:settled as">>
    ELSE <<"raise:" \o exc, "answer:Error", "send:error">>

\* cb_settle on the callback payload: it handles data starting "settle|".
CbSettle(data, storeFails) ==
    /\ StartsWith(data, P_Settle \o Bar)
    /\ LET parts == CallbackParts[data]
       IN  IF Len(parts) # 3
           THEN /\ lastOp' = [handler |-> "cb_settle", input |-> data,
                              events |-> cb_settle_events("ValueError")]
                /\ UNCHANGED <<sheet, entered>>
           ELSE Bind(settle_bet(sheet, parts[2], parts[3], storeFails), LAMBDA r :
                  /\ lastOp' = [handler |-> "cb_settle", input |-> data,
                                events |-> cb_settle_events(r.exc)]
                  /\ sheet' = r.sheet
                  /\ UNCHANGED entered)

\* @bot.callback_query_handler
cb_settle ==
    \E data \in CallbackData :
     \E storeFails \in StoreFaults(Len(CallbackParts[data]) = 3
                                     /\ ValidStatus(CallbackParts[data][3])) :
       CbSettle(data, storeFails) /\ UNCHANGED <<df, summary>>

\* msg.text.split() of every settle command text.
SettleParts == [text \in SettleTexts |-> SplitWS(text)]

\* What cmd_settle_text (through settle_and_reply) does, in order.
cmd_settle_events(exc) ==
    <<"chat_action">> \o
      (IF exc = "none" THEN <<"update", "reply:set">>
       ELSE <<"raise:" \o exc, "reply:error">>)

\* cmd_settle_text on the message text.
CmdSettleText(text, storeFails) ==
    LET parts == SettleParts[text]
    IN  IF Len(parts) # 2
        THEN /\ lastOp' = [handler |-> "cmd_settle_text", input |-> text,
                         events |-> <<"reply:usage">>]
             /\ UNCHANGED <<sheet, entered>>
        ELSE Bind(settle_bet(sheet, Upper(Strip(parts[2])),
                             Capitalize(Tail(parts[1])), storeFails), LAMBDA r :
               /\ lastOp' = [handler |-> "cmd_settle_text", input |-> text,
                             events |-> cmd_settle_events(r.exc)]
               /\ sheet' = r.sheet
               /\ UNCHANGED entered)

\* @bot.message_handler(commands=["win","void","loss"])
cmd_settle_text ==
    \E text \in SettleTexts :
     \E storeFails \in StoreFaults(Len(SettleParts[text]) = 2) :
       CmdSettleText(text, storeFails) /\ UNCHANGED <<df, summary>>

Next == cmd_log \/ log_bet_free_text_dm \/ cb_settle \/ cmd_settle_text

Spec == Init /\ [][Next]_vars

\* cmd_summary, from a data frame loaded and a window parsed: the call of
\* build_summary.
cmd_summary ==
    /\ \E w \in Windows :
         Bind(build_summary(df, w[1], w[2]), LAMBDA res :
           summary' = [done |-> TRUE, start |-> w[1], end |-> w[2],
                       overall |-> res[1], records |-> res[2]])
    /\ UNCHANGED <<sheet, entered, lastOp, df>>

\* The summary alone, on every data frame of at most MaxDf rows.
InitSummary ==
    /\ sheet = <<HeaderRow>>
    /\ entered = <<>>
    /\ lastOp = [handler |-> "none", input |-> <<>>, events |-> <<>>]
    /\ df \in Dfs
    /\ summary = NoSummary

NextSummary == cmd_summary

SpecSummary == InitSummary /\ [][NextSummary]_vars

\* The bet-line resolver alone: the two logging handlers.
NextLog == cmd_log \/ log_bet_free_text_dm

SpecLog == Init /\ [][NextLog]_vars

----------------------------------------------------------------------------
(* Properties *)

\* The bet records: every row below the header row.
BetRows == 2..Len(sheet)

FinalStatuses == {Text(T_Win), Text(T_Loss), Text(T_Void)}

Has(ev, e) == \E k \in 1..Len(ev) : ev[k] = e

\* C1: every record is created Pending, a record's status changes only from
\* Pending to Win, Loss or Void, and once it is Win, Loss or Void no step
\* changes its status, return or profit.
C1_StatusTerminal ==
    [][\A i \in 2..Len(sheet') :
         IF i > Len(sheet) THEN sheet'[i].status = Text(T_Pending)
         ELSE /\ sheet'[i].status # sheet[i].status
                   => /\ sheet[i].status = Text(T_Pending)
                      /\ sheet'[i].status \in FinalStatuses
              /\ sheet[i].status \in FinalStatuses
                   => /\ sheet'[i].status = sheet[i].status
                      /\ sheet'[i].ret = sheet[i].ret
                      /\ sheet'[i].profit = sheet[i].profit]_vars

\* C2: in every state each bet record is Pending with return and profit
\* empty, or Win, Loss or Void with the return and profit the settlement
\* rule gives for that status and the record's stored odds and stake.
C2_StatusReturnProfit ==
    \A i \in BetRows :
      LET r == sheet[i]
      IN  \/ r.status = Text(T_Pending) /\ r.ret = EmptyCell /\ r.profit = EmptyCell
          \/ /\ r.status = Text(T_Win)
             /\ r.ret = Num((r.odds.v * r.stake.v) \div 1000)
             /\ r.profit = Num(r.ret.v - r.stake.v)
          \/ r.status = Text(T_Loss) /\ r.ret = Num(0) /\ r.profit = Num(0 - r.stake.v)
          \/ r.status = Text(T_Void) /\ r.ret = Num(r.stake.v) /\ r.profit = Num(0)

\* A button press has just settled a record as Win, with a positive profit
\* written, while another record is Pending.
C2_Witness ==
    /\ lastOp.handler = "cb_settle"
    /\ Has(lastOp.events, "update")
    /\ \E i \in BetRows : sheet[i].status = Text(T_Win) /\ sheet[i].profit.v > 0
    /\ \E i \in BetRows : sheet[i].status = Text(T_Pending)

\* C3: a settled record's return and profit are those of the settlement
\* rule on the odds and stake the user entered when the bet was logged.
C3_EnteredOddsAndStake ==
    \A i \in 1..Len(entered) :
      LET r == sheet[i + 1]
          o == entered[i].odds_dec
          st == entered[i].stake
      IN  /\ r.status = Text(T_Win)
               => r.ret = Num(Mul(o, st)) /\ r.profit = Num(Mul(o, st) - st)
          /\ r.status = Text(T_Loss) => r.ret = Num(0) /\ r.profit = Num(0 - st)
          /\ r.status = Text(T_Void) => r.ret = Num(st) /\ r.profit = Num(0)

\* C4: every record of the store has stored odds above 1.0 and a stored
\* stake above 0.
C4_StoredBounds ==
    \A i \in BetRows :
      /\ sheet[i].odds.t = "num" /\ sheet[i].odds.v > 1000
      /\ sheet[i].stake.t = "num" /\ sheet[i].stake.v > 0

\* C5: no two records of the store have the same id.
C5_UniqueIds ==
    \A i, j \in BetRows : i # j => sheet[i].id # sheet[j].id

\* The fields of a line: split on "/", each stripped.
Fields(line) == StripAll(Split(line, "/"))

OddsParses(x) == IsOk(parse_odds_to_decimal(x))

MoneyParses(x) == IsOk(parse_money(x)) /\ Val(parse_money(x)) > 0

\* A step in which a logging handler runs the resolver on the line and the
\* store does not fail.
ResolverStep(line) ==
    \E h \in {"cmd_log", "log_bet_free_text_dm"} : LogTry(h, line, FALSE)

\* The step rejects the line: an error reply, and the sheet as it was.
RejectedStep ==
    /\ sheet' = sheet
    /\ Has(lastOp'.events, "reply:error")
    /\ ~Has(lastOp'.events, "append_row")

\* The step appends one row, a record read from the five fields f in the
\* layout Tipster / Selection / Odds / Bookmaker / Stake, with no event date.
AppendedA(f) ==
    /\ Len(sheet') = Len(sheet) + 1
    /\ SubSeq(sheet', 1, Len(sheet)) = sheet
    /\ Has(lastOp'.events, "reply:Logged")
    /\ LET r == sheet'[Len(sheet')]
       IN  /\ r.tipster = UserEntered(f[1])
           /\ r.selection = UserEntered(f[2])
           /\ r.odds.t = "num"
           /\ r.odds.v \in {10 * h : h \in Round2(Val(parse_odds_to_decimal(f[3])))}
           /\ r.bookmaker = UserEntered(f[4])
           /\ r.stake = Num(Val(parse_money(f[5])))
           /\ r.eventDate = EmptyCell
           /\ r.status = Text(T_Pending)

\* The step appends one row, a record read from the five fields f in the
\* layout Selection / Odds / Bookmaker / Stake / EventDateTime.
AppendedB(f) ==
    /\ Len(sheet') = Len(sheet) + 1
    /\ SubSeq(sheet', 1, Len(sheet)) = sheet
    /\ LET r == sheet'[Len(sheet')]
       IN  /\ r.selection = UserEntered(f[1])
           /\ r.bookmaker = UserEntered(f[3])
           /\ r.stake = Num(Val(parse_money(f[4])))
           /\ r.eventDate # EmptyCell

\* The line is read in the first layout: appended when its odds and stake
\* are valid, rejected otherwise.
ReadAsA(f) ==
    IF OddsParses(f[3]) /\ MoneyParses(f[5]) THEN AppendedA(f) ELSE RejectedStep

\* The line is read in the second layout.
ReadAsB(f) ==
    IF OddsParses(f[2]) /\ MoneyParses(f[4]) /\ strptime_Ymd(f[5])
    THEN AppendedB(f) ELSE RejectedStep

\* The lines of five fields, none of them empty.
FiveFieldLines == {l \in LogLines : Len(Fields(l)) = 5 /\ DropEmpty(Fields(l)) = Fields(l)}

C7_ThreeOrSevenRejected ==
    [][\A line \in LogLines :
         (Len(Split(line, "/")) \in {3, 7} /\ ResolverStep(line)) => RejectedStep]_vars

\* C7 as the code has it: a line of 3 fields is rejected; a line of 7
\* fields is rejected with the field-count message unless exactly two of its
\* fields are empty or blank, and is then read from the other five as
\* Tipster / Selection / Odds / Bookmaker / Stake.
C7_ThreeOrSevenUnlessBlank ==
    [][\A line \in LogLines :
         (Len(Split(line, "/")) \in {3, 7} /\ ResolverStep(line)) =>
           IF Len(Split(line, "/")) = 7 /\ Len(DropEmpty(Fields(line))) = 5
           THEN ReadAsA(DropEmpty(Fields(line)))
           ELSE RejectedStep /\ Has(lastOp'.events, "raise:Please send")]_vars

\* A line of seven fields, two of them empty, has just been logged.
C7_Witness ==
    /\ lastOp.handler = "log_bet_free_text_dm"
    /\ Len(Split(lastOp.input, "/")) = 7
    /\ Len(DropEmpty(Fields(lastOp.input))) = 5
    /\ Has(lastOp.events, "reply:Logged")

\* str.lower()
Lower(s) == [i \in 1..Len(s) |-> ToLower(s[i])]

\* No bet record has this id.
UnknownId(id) == \A i \in BetRows : CellText(sheet[i].id) # id

\* The tag is not Win, Loss or Void in any letter case.
InvalidTag(tag) ==
    Lower(tag) \notin {<<"w", "i", "n">>, <<"l", "o", "s", "s">>, <<"v", "o", "i", "d">>}

\* What C8 asks of a step that handles a settlement request for id and tag,
\* err being the handler's error reply to the chat.
SettleRequestMet(id, tag, err) ==
    /\ (UnknownId(id) \/ InvalidTag(tag))
         => sheet' = sheet /\ Has(lastOp'.events, err)
    /\ (~UnknownId(id) /\ ~InvalidTag(tag) /\ Has(lastOp'.events, "update"))
         => \E i \in BetRows :
              /\ CellText(sheet[i].id) = id
              /\ sheet'[i].status = Text(Capitalize(tag))

\* C8: a settlement request whose id is the id of no bet record, or whose
\* tag is not Win, Loss or Void in any letter case, gets an error reply and
\* leaves every row unchanged; a valid tag is stored in title case.
C8_BadRequestRejected ==
    [][/\ \A text \in SettleTexts : \A storeFails \in BOOLEAN :
            (Len(SettleParts[text]) = 2 /\ CmdSettleText(text, storeFails))
              => SettleRequestMet(Upper(Strip(SettleParts[text][2])),
                                  Tail(SettleParts[text][1]), "reply:error")
       /\ \A data \in CallbackData : \A storeFails \in BOOLEAN :
            (Len(CallbackParts[data]) = 3 /\ CbSettle(data, storeFails))
              => SettleRequestMet(CallbackParts[data][2], CallbackParts[data][3],
                                  "send:error")]_vars

Confirmations == {"reply:Logged", "reply:set", "answer:saved", "edit:settled as"}

StoreWrites == {"append_row", "update"}

ErrorReplies == {"reply:error", "send:error"}

\* C10: in every handler that logs or settles a bet, a success confirmation
\* is sent only after the store write has returned; when the store raises,
\* the sheet is as it was, no confirmation is sent and an error reply is.
C10_ConfirmAfterWrite ==
    [][LET ev == lastOp'.events
       IN  /\ \A k \in 1..Len(ev) :
                ev[k] \in Confirmations
                  => /\ \E j \in 1..(k - 1) : ev[j] \in StoreWrites
                     /\ \A j \in 1..Len(ev) : ev[j] \notin ErrorReplies
           /\ Has(ev, "append_row") => Len(sheet') = Len(sheet) + 1
           /\ Has(ev, "raise:StoreError")
                => /\ sheet' = sheet
                   /\ \A k \in 1..Len(ev) : ev[k] \notin Confirmations \cup StoreWrites
                   /\ \E k \in 1..Len(ev) : ev[k] \in ErrorReplies]_vars

\* The store has just raised under a button press on a sheet that holds a
\* record: the press was answered with an error.
C10_Witness ==
    /\ lastOp.handler = "cb_settle"
    /\ Has(lastOp.events, "raise:StoreError")
    /\ Has(lastOp.events, "send:error")
    /\ Len(sheet) > 1

\* The sum of the values of a function of finite domain.
RECURSIVE SumFun(_)
SumFun(f) ==
    IF DOMAIN f = {} THEN 0
    ELSE LET i == CHOOSE i \in DOMAIN f : TRUE
         IN  f[i] + SumFun([j \in DOMAIN f \ {i} |-> f[j]])

\* The sum of F(i) over the members i of a finite set.
SumOver(S, F(_)) == SumFun([i \in S |-> F(i)])

\* The rows of df that a summary of the window counts for tipster tip: the
\* settled ones whose date placed lies in the window.
Counted(tip, start, end) ==
    {i \in 1..Len(df) : /\ df[i].tipster = tip
                        /\ df[i].date >= start /\ df[i].date < end
                        /\ df[i].status \in {T_Win, T_Loss, T_Void}}

C9_ReturnedAt(i) ==
    IF df[i].status = T_Win THEN df[i].ret
    ELSE IF df[i].status = T_Void THEN df[i].stake ELSE 0

C9_ProfitAt(i) == IF df[i].status = T_Void THEN 0 ELSE df[i].profit

C9_StakeAt(i) == df[i].stake

\* df with the stored return and profit of every Void row replaced.
VoidFieldsReplaced ==
    [i \in 1..Len(df) |->
       IF df[i].status = T_Void
       THEN [df[i] EXCEPT !.ret = 999000, !.profit = 0 - 999000]
       ELSE df[i]]

\* df without the rows that are Pending or have another status.
OnlySettled == SelectSeq(df, LAMBDA r : r.status \in {T_Win, T_Loss, T_Void})

\* The figures of a record of the summary.
Figures(r) ==
    [tipster |-> r.tipster, bets |-> r.bets, wins |-> r.wins, staked |-> r.staked,
     returned |-> r.returned, profit |-> r.profit, winPct |-> r.winPct]

\* C9: for every tipster with settled records in the window, build_summary
\* reports one record with bets the group's size, wins the number of Win
\* records, staked the sum of stakes, returned the sum of (stored return if
\* Win, stake if Void, 0 if Loss), profit the sum of (0 if Void, stored
\* profit otherwise) and winPct wins / bets, and no record for any other
\* tipster; the result is the same whatever the Void rows store as return
\* and profit, and the figures are the same without the rows that are
\* Pending or of another status.
C9_SummaryFigures ==
    summary.done =>
      /\ \A t \in 1..Len(TipsterOrder) :
           LET S == Counted(TipsterOrder[t], summary.start, summary.end)
               hits == {k \in 1..Len(summary.records) :
                          summary.records[k].tipster = TipsterName(TipsterOrder[t])}
           IN  IF S = {} THEN hits = {}
               ELSE /\ Cardinality(hits) = 1
                    /\ \A k \in hits :
                         LET r == summary.records[k]
                         IN  /\ r.bets = Cardinality(S)
                             /\ r.wins = Cardinality({i \in S : df[i].status = T_Win})
                             /\ r.staked = SumOver(S, C9_StakeAt)
                             /\ r.returned = SumOver(S, C9_ReturnedAt)
                             /\ r.profit = SumOver(S, C9_ProfitAt)
                             /\ r.winPct * r.bets <= r.wins * 1000
                             /\ r.wins * 1000 < (r.winPct + 1) * r.bets
      /\ build_summary(VoidFieldsReplaced, summary.start, summary.end)
           = <<summary.overall, summary.records>>
      /\ [k \in 1..Len(summary.records) |-> Figures(summary.records[k])]
           = [k \in 1..Len(build_summary(OnlySettled, summary.start, summary.end)[2]) |->
                Figures(build_summary(OnlySettled, summary.start, summary.end)[2][k])]

\* The summary of a window holding, for one tipster, a Win (stake 50,
\* return 100, profit 50) and a Void of stake 20 that stores return 7 and
\* profit 3: bets 2, wins 1, staked 70, returned 120, profit 50, winPct 0.5.
C9_Witness ==
    /\ summary.done
    /\ \E i \in 1..Len(df) : df[i].status = T_Void /\ df[i].ret = 7000
    /\ \E k \in 1..Len(summary.records) :
         /\ summary.records[k].bets = 2 /\ summary.records[k].wins = 1
         /\ summary.records[k].staked = 70000
         /\ summary.records[k].returned = 120000
         /\ summary.records[k].profit = 50000
         /\ summary.records[k].winPct = 500

\* The columns a settlement does not write.
KeptCols == {"id", "datePlaced", "eventDate", "tipster", "selection", "odds",
             "bookmaker", "stake", "cum"}

\* What C11 asks of a step that settles id with success: the sheet keeps
\* its rows, and differs at most in the status, return and profit of one
\* bet record whose id is id.
SettlementFramed(id) ==
    Has(lastOp'.events, "update") =>
      /\ Len(sheet') = Len(sheet)
      /\ \E i \in BetRows :
           /\ CellText(sheet[i].id) = id
           /\ \A c \in KeptCols : sheet'[i][c] = sheet[i][c]
           /\ \A j \in 1..Len(sheet) : j # i => sheet'[j] = sheet[j]

\* C11: a successful settlement for an identifier changes only the status,
\* return and profit of the bet record with that id; the record's other
\* fields, every other row of the sheet and the number of rows stay as
\* they were.
C11_SettlementFrame ==
    [][/\ \A text \in SettleTexts : \A storeFails \in BOOLEAN :
            (/\ lastOp'.input = text
             /\ Len(SettleParts[text]) = 2
             /\ CmdSettleText(text, storeFails))
              => SettlementFramed(Upper(Strip(SettleParts[text][2])))
       /\ \A data \in CallbackData : \A storeFails \in BOOLEAN :
            (/\ lastOp'.input = data
             /\ Len(CallbackParts[data]) = 3
             /\ CbSettle(data, storeFails))
              => SettlementFramed(CallbackParts[data][2])]_vars

\* C11 for the settlements that find a bet record: the same frame, asked
\* only of the steps whose identifier is the id of a bet record and is not
\* the text of a cell of the header row.
C11_FrameOnBetRows ==
    [][/\ \A text \in SettleTexts : \A storeFails \in BOOLEAN :
            (/\ lastOp'.input = text
             /\ Len(SettleParts[text]) = 2
             /\ CmdSettleText(text, storeFails)
             /\ ws_find(<<sheet[1]>>, Upper(Strip(SettleParts[text][2]))) = <<>>)
              => SettlementFramed(Upper(Strip(SettleParts[text][2])))
       /\ \A data \in CallbackData : \A storeFails \in BOOLEAN :
            (/\ lastOp'.input = data
             /\ Len(CallbackParts[data]) = 3
             /\ CbSettle(data, storeFails)
             /\ ws_find(<<sheet[1]>>, CallbackParts[data][2]) = <<>>)
              => SettlementFramed(CallbackParts[data][2])]_vars

====
